---- MODULE Spec2Model ----
(***************************************************************************)
(* Model of the Kling video-generation client (src/src/clients/kling.py)   *)
(* and its response records (src/src/models/kling_models.py): the response *)
(* decoder _parse_response, the polling loop wait_for_completion and the   *)
(* artifact download download_video.                                       *)
(*                                                                         *)
(* Python values are records tagged by their type (field t): None is       *)
(* JNull, a str is JStr(s), an int is JNum(n), a dict is JObj(f) with f a   *)
(* function from its keys to values, and JList is a non-empty list (a      *)
(* value that is truthy, is not a dict and is not a str).                  *)
(***************************************************************************)
EXTENDS Integers, Sequences, FiniteSets, TLC

VARIABLES
    response_data,   \* _parse_response: the mapping handed to the decoder
    parsed,          \* _parse_response: what the call produced (or NotRun)
    pc,              \* wait_for_completion: position of the coroutine
    now,             \* the event loop's clock, asyncio.get_event_loop().time()
    start_time,      \* wait_for_completion: start_time
    poll_interval,   \* wait_for_completion: argument
    max_wait,        \* wait_for_completion: argument
    callback,        \* wait_for_completion: TRUE iff a callback was passed
    response,        \* wait_for_completion: the response of the last poll
    polled,          \* history: the JSON bodies the status requests returned
    observed,        \* history: the responses the callback was called with
    pollTimes,       \* history: elapsed time at which each status request was issued
    sleeps,          \* history: number of asyncio.sleep(poll_interval) calls
    outcome,         \* how the modelled call ended (return value or exception)
    files,           \* the file system: path -> content, or NoFile
    files_before,    \* history: the file system when download_video was called
    download_args,   \* history: the arguments of the last download_video call
    http_log,        \* history: the requests of the last download_video call, with the responses
    calls,           \* number of download_video calls made
    op,              \* the method of KlingClient that was called
    prompt,          \* generate / generate_and_wait: the prompt argument, by its length
    task_id_arg,     \* get_task_status / wait_for_completion: the task_id argument
    requests,        \* history: the HTTP requests generate and get_task_status sent
    gw_pc,           \* generate_and_wait: position of the coroutine
    gw_args,         \* generate_and_wait: the arguments of the call
    gw_steps,        \* history: the steps generate_and_wait ran, with how each ended
    waiters,         \* concurrent wait_for_completion calls: waiter -> its locals
    config,          \* config.py: the API keys of class Config
    init_args,       \* KlingClient.__init__: the arguments of the call
    client,          \* the KlingClient built by __init__ (or NoClient)
    processed_file,  \* backend/app.py: the content of PROCESSED_FILE
    summaries,       \* backend/app.py: video id -> number of summaries saved in SUMMARIES_DIR
    run,             \* history: the latest check_new_videos or /summarize call
    threads          \* concurrent process_video calls: thread -> its locals

vars == <<response_data, parsed, pc, now, start_time, poll_interval, max_wait,
          callback, response, polled, observed, pollTimes, sleeps, outcome,
          files, files_before, download_args, http_log, calls,
          op, prompt, task_id_arg, requests, gw_pc, gw_args, gw_steps, waiters,
          config, init_args, client, processed_file, summaries, run, threads>>

decodeVars == <<response_data, parsed>>
waitVars == <<pc, now, start_time, poll_interval, max_wait, callback, response,
              polled, observed, pollTimes, sleeps>>
fileVars == <<files, files_before, download_args, http_log, calls>>
clientVars == <<op, prompt, task_id_arg, requests>>
gwVars == <<gw_pc, gw_args, gw_steps>>
ctorVars == <<config, init_args, client>>
appVars == <<processed_file, summaries, run, threads>>

-----------------------------------------------------------------------------
(* Python / JSON values *)

JNull == [t |-> "null"]
JList == [t |-> "list"]
JStr(s) == [t |-> "str", v |-> s]
JNum(n) == [t |-> "num", v |-> n]
JObj(f) == [t |-> "obj", f |-> f]

\* the empty dict {}
EmptyFields == [k \in {} |-> JNull]
EmptyObj == JObj(EmptyFields)

\* isinstance(x, dict)
IsDict(x) == x.t = "obj"

\* bool(x)
Truthy(x) ==
    CASE x.t = "null" -> FALSE
      [] x.t = "str"  -> x.v # ""
      [] x.t = "num"  -> x.v # 0
      [] x.t = "list" -> TRUE
      [] x.t = "obj"  -> DOMAIN x.f # {}

\* d.get(key, default) of a dict d
DictGet(d, key, default) == IF key \in DOMAIN d.f THEN d.f[key] ELSE default

\* f"{x}" of None or of a str
PyFormat(x) == IF x.t = "null" THEN "None" ELSE x.v

-----------------------------------------------------------------------------
(* kling_models.py *)

\* class TaskStatus(str, Enum): member name -> value
TaskStatus ==
    [PENDING |-> "Pending", PROCESSING |-> "Processing", COMPLETED |-> "Completed",
     FAILED |-> "Failed", STAGED |-> "Staged"]

\* TaskStatus(value): the member with that value; "ValueError" when there is none
TaskStatusLookup(x) ==
    IF x.t = "str" /\ \E m \in DOMAIN TaskStatus : TaskStatus[m] = x.v
    THEN CHOOSE m \in DOMAIN TaskStatus : TaskStatus[m] = x.v
    ELSE "ValueError"

\* pydantic validation of a field annotated str
ValidStr(x) == x.t = "str"

\* pydantic validation of a field annotated Optional[str]
ValidOptStr(x) == x.t \in {"null", "str"}

\* strings pydantic parses as a datetime
DatetimeStrings == {"2025-01-01T00:00:00"}

\* pydantic validation of a field annotated Optional[datetime]
ValidOptDatetime(x) == x.t = "null" \/ (x.t = "str" /\ x.v \in DatetimeStrings)

\* TaskMeta(created_at=..., started_at=..., ended_at=...) passes validation
TaskMetaValid(c, s, e) == ValidOptDatetime(c) /\ ValidOptDatetime(s) /\ ValidOptDatetime(e)

\* VideoTask(task_id=..., status=..., video_url=..., meta=..., error_message=...) passes validation
VideoTaskValid(task_id, video_url, error_message) ==
    ValidStr(task_id) /\ ValidOptStr(video_url) /\ ValidOptStr(error_message)

\* is_completed that also asks for a result URL
is_completed_NeedsUrl(r) == r.task.status = "COMPLETED" /\ Truthy(r.task.video_url)

\* VideoGenerationResponse.is_completed
is_completed(r) == r.task.status = "COMPLETED"

\* VideoGenerationResponse.is_failed
is_failed(r) == r.task.status = "FAILED"

\* is_processing with STAGED left out of the list
is_processing_NoStaged(r) == r.task.status \in {"PENDING", "PROCESSING"}

\* VideoGenerationResponse.is_processing
is_processing(r) == r.task.status \in {"PENDING", "PROCESSING", "STAGED"}

-----------------------------------------------------------------------------
(* kling.py: KlingClient._parse_response *)

Raised(exc) == [exc |-> exc]
Returned(r) == [exc |-> "none", resp |-> r]

\* ParseStatus with the fallback of line 154 turned into a failure status
ParseStatus_FallbackFailed(status_str) ==
    IF TaskStatusLookup(status_str) = "ValueError" THEN "FAILED"
    ELSE TaskStatusLookup(status_str)

\* lines 150-154: try: TaskStatus(status_str) except ValueError: PENDING
ParseStatus(status_str) ==
    IF TaskStatusLookup(status_str) = "ValueError" THEN "PENDING"
    ELSE TaskStatusLookup(status_str)

\* lines 157-158
ExtractVideoUrl(data) ==
    LET output == DictGet(data, "output", EmptyObj)
    IN IF IsDict(output) THEN DictGet(output, "video_url", JNull) ELSE JNull

\* lines 171-172
ExtractErrorMessage(data) ==
    LET error_data == DictGet(data, "error", EmptyObj)
    IN IF IsDict(error_data) THEN DictGet(error_data, "message", JNull) ELSE JNull

\* lines 174-186: build the task and the response; pydantic validates both
BuildResponse(response_data_, data, meta) ==
    LET task_id == DictGet(data, "task_id", JStr(""))
        status == ParseStatus(DictGet(data, "status", JStr("Pending")))
        video_url == ExtractVideoUrl(data)
        error_message == ExtractErrorMessage(data)
        message == DictGet(response_data_, "message", JNull)
    IN IF ~VideoTaskValid(task_id, video_url, error_message) THEN Raised("ValidationError")
       ELSE IF ~ValidOptStr(message) THEN Raised("ValidationError")
       ELSE Returned([task |-> [task_id |-> task_id.v, status |-> status,
                                video_url |-> video_url, meta |-> meta,
                                error_message |-> error_message],
                      success |-> (DictGet(response_data_, "code", JNum(200)) = JNum(200)),
                      message |-> message])

\* lines 161-168: meta_data = data.get("meta", {}); TaskMeta(...) if meta_data
ParseMeta(data) ==
    LET meta_data == DictGet(data, "meta", EmptyObj)
    IN IF ~Truthy(meta_data) THEN Returned(JNull)
       ELSE IF ~IsDict(meta_data) THEN Raised("AttributeError")
       ELSE LET c == DictGet(meta_data, "created_at", JNull)
                s == DictGet(meta_data, "started_at", JNull)
                e == DictGet(meta_data, "ended_at", JNull)
            IN IF TaskMetaValid(c, s, e)
               THEN Returned([created_at |-> c, started_at |-> s, ended_at |-> e])
               ELSE Raised("ValidationError")

\* lines 142-186
_parse_response(response_data_) ==
    LET data == DictGet(response_data_, "data", response_data_)
    IN IF ~IsDict(data) THEN Raised("AttributeError")
       ELSE LET meta == ParseMeta(data)
            IN IF meta.exc # "none" THEN meta
               ELSE BuildResponse(response_data_, data, meta.resp)

-----------------------------------------------------------------------------
(* Inputs of the decoder: JSON bodies the remote API can send *)

\* marks a key the mapping does not have
Absent == [t |-> "absent"]

\* the dict holding the keys of ch whose value is not Absent
MkObj(ch) == JObj([k \in {x \in DOMAIN ch : ch[x] # Absent} |-> ch[k]])

TaskIdOpts == {Absent, JNull, JList, JStr("t1")}

StatusOpts ==
    {Absent, JNull, JStr("Pending"), JStr("Processing"), JStr("Staged"),
     JStr("Completed"), JStr("Failed"), JStr("pending"), JStr("Queued")}

OutputOpts ==
    {Absent, JList, EmptyObj,
     MkObj([video_url |-> JStr("https://cdn/v.mp4")]), MkObj([video_url |-> JStr("")]),
     MkObj([video_url |-> JList])}

MetaOpts ==
    {Absent, JNull, JList,
     MkObj([created_at |-> JStr("2025-01-01T00:00:00")]),
     MkObj([created_at |-> JStr("yesterday")])}

ErrorOpts ==
    {Absent, JList, EmptyObj,
     MkObj([message |-> JStr("nsfw content")]), MkObj([message |-> JList])}

CodeOpts == {Absent, JNum(200), JNum(500)}

MessageOpts == {Absent, JStr("success"), JList}

\* the task fields of a body
TaskFieldChoices ==
    [task_id : TaskIdOpts, status : StatusOpts, output : OutputOpts,
     meta : MetaOpts, error : ErrorOpts]

\* a body with the task fields at the top level
FlatBody(tf, code, message) ==
    MkObj([task_id |-> tf.task_id, status |-> tf.status, output |-> tf.output,
           meta |-> tf.meta, error |-> tf.error, code |-> code, message |-> message])

\* a body with the task fields under "data"
WrappedBody(tf, code, message) ==
    MkObj([data |-> MkObj(tf), code |-> code, message |-> message])

\* a body whose "data" is not a mapping
BadDataBody(d, code, message) ==
    MkObj([data |-> d, code |-> code, message |-> message])

\* a well-formed completed task, to vary the envelope around
PlainTask ==
    [task_id |-> JStr("t1"), status |-> JStr("Completed"),
     output |-> MkObj([video_url |-> JStr("https://cdn/v.mp4")]),
     meta |-> Absent, error |-> Absent]

DecodeInputs ==
    {FlatBody(tf, Absent, Absent) : tf \in TaskFieldChoices}
    \cup {WrappedBody(tf, JNum(200), JStr("success")) : tf \in TaskFieldChoices}
    \cup {FlatBody(PlainTask, c, m) : c \in CodeOpts, m \in MessageOpts}
    \cup {WrappedBody(PlainTask, c, m) : c \in CodeOpts, m \in MessageOpts}
    \cup {BadDataBody(d, c, m) : d \in {JNull, JList, JStr("ok")}, c \in CodeOpts, m \in MessageOpts}

-----------------------------------------------------------------------------
(* Values of the variables an operation does not use *)

NotRun == [exc |-> "notrun"]
NoOutcome == [kind |-> "none"]
NoFile == [t |-> "nofile"]

DecodeIdle == response_data = EmptyObj /\ parsed = NotRun

WaitIdle ==
    /\ pc = "off" /\ now = 0 /\ start_time = 0 /\ poll_interval = 0 /\ max_wait = 0
    /\ callback = FALSE /\ response = JNull /\ polled = <<>> /\ observed = <<>>
    /\ pollTimes = <<>> /\ sleeps = 0

FileIdle ==
    files = <<>> /\ files_before = <<>> /\ download_args = <<>> /\ http_log = <<>> /\ calls = 0

ClientIdle == op = "none" /\ prompt = 0 /\ task_id_arg = "" /\ requests = <<>>

GWIdle == gw_pc = "off" /\ gw_args = <<>> /\ gw_steps = <<>>

ConcIdle == waiters = <<>>

NoClient == [t |-> "noclient"]

CtorIdle == config = <<>> /\ init_args = <<>> /\ client = NoClient

AppIdle == processed_file = <<>> /\ summaries = <<>> /\ run = <<>> /\ threads = <<>>

-----------------------------------------------------------------------------
(* Specification of the decoder: one call of _parse_response on any input *)

InitDecode ==
    /\ response_data \in DecodeInputs
    /\ parsed = NotRun
    /\ outcome = NoOutcome
    /\ WaitIdle /\ FileIdle /\ ClientIdle /\ GWIdle /\ ConcIdle /\ CtorIdle /\ AppIdle

\* kling.py 142-186: the call self._parse_response(response_data)
ParseResponse ==
    /\ parsed = NotRun
    /\ parsed' = _parse_response(response_data)
    /\ UNCHANGED <<ctorVars, appVars, response_data, outcome, waitVars, fileVars, clientVars, gwVars, waiters>>

NextDecode == ParseResponse

SpecDecode == InitDecode /\ [][NextDecode]_vars

-----------------------------------------------------------------------------
(* Claims about the decoder, checked under SpecDecode *)

\* the task data of the body handed to the decoder, as the remote service sent it
SentData == DictGet(response_data, "data", response_data)

\* the "status" entry the remote service sent, Absent when it sent none
SentStatus == DictGet(SentData, "status", Absent)

KnownStatusStrings == {"Pending", "Processing", "Staged", "Completed", "Failed"}

\* the enumeration member the documentation names for a known status string
MemberNamed(s) ==
    CASE s = "Pending" -> "PENDING"
      [] s = "Processing" -> "PROCESSING"
      [] s = "Staged" -> "STAGED"
      [] s = "Completed" -> "COMPLETED"
      [] s = "Failed" -> "FAILED"

\* C6: the decoder maps each of the five status strings to the member of that
\* name, and every other status string and a missing status field to Pending.
C6_StatusDecoding ==
    parsed.exc = "none" =>
        /\ (SentStatus.t = "str" /\ SentStatus.v \in KnownStatusStrings)
              => parsed.resp.task.status = MemberNamed(SentStatus.v)
        /\ (SentStatus.t = "str" /\ SentStatus.v \notin KnownStatusStrings)
              => parsed.resp.task.status = "PENDING"
        /\ SentStatus = Absent => parsed.resp.task.status = "PENDING"

\* C6 witness: an unrecognized status string was decoded to Pending in a body
\* that was otherwise decoded in full
C6_Witness ==
    /\ parsed.exc = "none"
    /\ SentStatus = JStr("Queued")
    /\ parsed.resp.task.status = "PENDING"
    /\ parsed.resp.task.task_id = "t1"

\* C7: the decoder never raises, whatever mapping it is given.
C7_NeverRaises == parsed # NotRun => parsed.exc = "none"

\* C8: a decoded task never has both video_url and error_message non-empty.
C8_UrlErrorExclusive ==
    parsed.exc = "none" =>
        ~(Truthy(parsed.resp.task.video_url) /\ Truthy(parsed.resp.task.error_message))

\* C9: video_url is non-empty only in a Completed record and error_message only
\* in a Failed record; an in-flight record has both empty.
C9_FieldsFollowStatus ==
    parsed.exc = "none" =>
        /\ Truthy(parsed.resp.task.video_url) => parsed.resp.task.status = "COMPLETED"
        /\ Truthy(parsed.resp.task.error_message) => parsed.resp.task.status = "FAILED"

-----------------------------------------------------------------------------
(* kling.py: KlingClient.get_task_status and KlingClient.wait_for_completion *)

\* longest time one status request takes, in clock units
MaxReqTime == 1

\* clock readings at the call of wait_for_completion
StartClocks == {0, 7}

\* poll_interval arguments
PollIntervals == {10, 20}

\* max_wait arguments
MaxWaits == {-5, 0, 20, 25}

\* HTTP status codes of the status endpoint
PollStatusCodes == {200, 500}

\* a body of the status endpoint with the given status, result URL and error
StatusBody(status, output, error) ==
    WrappedBody([task_id |-> JStr("t1"), status |-> JStr(status), output |-> output,
                 meta |-> Absent, error |-> error], JNum(200), JStr("success"))

UrlOutput == MkObj([video_url |-> JStr("https://cdn/v.mp4")])
ErrorObj == MkObj([message |-> JStr("nsfw content")])

\* the bodies the status endpoint answers with
WaitResponses ==
    {StatusBody("Pending", Absent, Absent), StatusBody("Processing", Absent, Absent),
     StatusBody("Staged", Absent, Absent), StatusBody("Queued", Absent, Absent),
     StatusBody("Completed", UrlOutput, Absent), StatusBody("Completed", EmptyObj, Absent),
     StatusBody("Failed", Absent, ErrorObj), StatusBody("Failed", UrlOutput, Absent),
     BadDataBody(JNull, JNum(200), Absent)}

\* httpx Response.raise_for_status() raises (all codes used here are 2xx, 4xx or 5xx)
RaisesForStatus(code) == code \notin 200..299

\* line 303: return response
ReturnOf(r) == [kind |-> "return", value |-> r]

\* the failure error with the message of lines 306-308 built from the decoded message field
FailureError_FromMessage(r) ==
    [kind |-> "RuntimeError", msg |-> <<"Video generation failed: ", PyFormat(r.message)>>]

\* lines 306-308: RuntimeError(f"Video generation failed: {response.task.error_message}")
FailureError(r) ==
    [kind |-> "RuntimeError",
     msg |-> <<"Video generation failed: ", PyFormat(r.task.error_message)>>]

\* the deadline reported with the error of the failure branch
TimeoutErrorOf_AsRuntimeError(mw) ==
    [kind |-> "RuntimeError", msg |-> <<"Video generation timed out after ", mw, " seconds">>]

\* lines 312-314: TimeoutError(f"Video generation timed out after {max_wait} seconds")
TimeoutErrorOf(mw) ==
    [kind |-> "TimeoutError", msg |-> <<"Video generation timed out after ", mw, " seconds">>]

\* line 310: elapsed = asyncio.get_event_loop().time() - start_time
Elapsed == now - start_time

\* a request that asks the remote service to cancel the task
StatusRequest_Cancel(tid) == [method |-> "POST", path |-> <<"/task/", tid, "/cancel">>]

\* lines 259-265: the request of get_task_status, GET {base_url}/task/{task_id}
StatusRequest(tid) == [method |-> "GET", path |-> <<"/task/", tid>>]

\* a call that answers without sending its request
RequestsOfCall_NotSent(req, code) == <<>>

\* the requests of a call that sends its request again when the answer is an error
RequestsOfCall_RetryOnError(req, code) ==
    IF RaisesForStatus(code) THEN <<req, req>> ELSE <<req>>

\* lines 238-244, 261-266: the requests one call sends, given the status code of the
\* answer: client.post / client.get is awaited once, then raise_for_status()
RequestsOfCall(req, code) == <<req>>

\* the callback's exception caught and the loop carried on
PcAfterCallback_Swallow(raised) == "classify"

\* line 300: callback(response) is not inside a try: when it raises, the coroutine ends
PcAfterCallback(raised) == IF raised THEN "done" ELSE "classify"

InitWait ==
    /\ pc = "entry"
    /\ now \in StartClocks
    /\ start_time = 0
    /\ poll_interval \in PollIntervals
    /\ max_wait \in MaxWaits
    /\ callback \in BOOLEAN
    /\ response = JNull
    /\ polled = <<>> /\ observed = <<>> /\ pollTimes = <<>> /\ sleeps = 0
    /\ outcome = NoOutcome
    /\ op = "wait_for_completion" /\ prompt = 0 /\ task_id_arg = "t1" /\ requests = <<>>
    /\ DecodeIdle /\ FileIdle /\ GWIdle /\ ConcIdle /\ CtorIdle /\ AppIdle

\* line 294: start_time = asyncio.get_event_loop().time()
WaitEnter ==
    /\ pc = "entry"
    /\ start_time' = now
    /\ pc' = "poll"
    /\ UNCHANGED <<ctorVars, appVars, now, poll_interval, max_wait, callback, response, polled, observed,
                   pollTimes, sleeps, outcome, decodeVars, fileVars, clientVars, gwVars, waiters>>

\* line 297 and lines 259-269: one GET of the task's status, raise_for_status,
\* response.json() and _parse_response; the request takes d clock units
GetTaskStatus ==
    /\ pc = "poll"
    /\ \E d \in 0..MaxReqTime, code \in PollStatusCodes, body \in WaitResponses :
          /\ now' = now + d
          /\ pollTimes' = Append(pollTimes, now - start_time)
          /\ requests' = requests \o RequestsOfCall(StatusRequest(task_id_arg), code)
          /\ IF RaisesForStatus(code)
             THEN /\ outcome' = [kind |-> "HTTPStatusError", code |-> code]
                  /\ pc' = "done"
                  /\ UNCHANGED <<response, polled>>
             ELSE /\ polled' = Append(polled, body)
                  /\ IF _parse_response(body).exc # "none"
                     THEN /\ outcome' = [kind |-> _parse_response(body).exc]
                          /\ pc' = "done"
                          /\ UNCHANGED response
                     ELSE /\ response' = _parse_response(body).resp
                          /\ pc' = "callback"
                          /\ UNCHANGED outcome
    /\ UNCHANGED <<ctorVars, appVars, start_time, poll_interval, max_wait, callback, observed, sleeps,
                   decodeVars, fileVars, op, prompt, task_id_arg, gwVars, waiters>>

\* lines 299-300: if callback: callback(response); the callback returns or raises
InvokeCallback ==
    /\ pc = "callback"
    /\ IF callback
       THEN /\ observed' = Append(observed, response)
            /\ \E raised \in BOOLEAN :
                  /\ pc' = PcAfterCallback(raised)
                  /\ outcome' = IF raised THEN [kind |-> "CallbackError"] ELSE outcome
       ELSE /\ pc' = "classify"
            /\ UNCHANGED <<observed, outcome>>
    /\ UNCHANGED <<ctorVars, appVars, now, start_time, poll_interval, max_wait, callback, response, polled,
                   pollTimes, sleeps, decodeVars, fileVars, clientVars, gwVars, waiters>>

\* the deadline checked before the status of the response
WaitVerdict_DeadlineFirst(r, elapsed, mw) ==
    IF elapsed > mw THEN TimeoutErrorOf(mw)
    ELSE IF is_completed(r) THEN ReturnOf(r)
    ELSE IF is_failed(r) THEN FailureError(r)
    ELSE [kind |-> "continue"]

\* lines 302-314: how one iteration ends for the polled response r, the elapsed time
\* and max_wait mw: return, RuntimeError, TimeoutError, or go on to the sleep
WaitVerdict(r, elapsed, mw) ==
    IF is_completed(r) THEN ReturnOf(r)
    ELSE IF is_failed(r) THEN FailureError(r)
    ELSE IF elapsed > mw THEN TimeoutErrorOf(mw)
    ELSE [kind |-> "continue"]

\* lines 302-314: return on Completed, raise on Failed, raise on an exceeded deadline
Classify ==
    /\ pc = "classify"
    /\ IF WaitVerdict(response, Elapsed, max_wait).kind = "continue"
       THEN pc' = "sleep" /\ UNCHANGED outcome
       ELSE pc' = "done" /\ outcome' = WaitVerdict(response, Elapsed, max_wait)
    /\ UNCHANGED <<ctorVars, appVars, now, start_time, poll_interval, max_wait, callback, response, polled,
                   observed, pollTimes, sleeps, decodeVars, fileVars, clientVars, gwVars,
                   waiters>>

\* a sleep during which the clock does not advance
ClockAfterSleep_Stuck(t, interval) == t

\* line 316: the clock after await asyncio.sleep(poll_interval) begun at time t
ClockAfterSleep(t, interval) == t + interval

\* line 316: await asyncio.sleep(poll_interval)
Sleep ==
    /\ pc = "sleep"
    /\ now' = ClockAfterSleep(now, poll_interval)
    /\ sleeps' = sleeps + 1
    /\ pc' = "poll"
    /\ UNCHANGED <<ctorVars, appVars, start_time, poll_interval, max_wait, callback, response, polled,
                   observed, pollTimes, outcome, decodeVars, fileVars, clientVars, gwVars,
                   waiters>>

Init == InitWait

Next == WaitEnter \/ GetTaskStatus \/ InvokeCallback \/ Classify \/ Sleep

Spec == Init /\ [][Next]_vars

-----------------------------------------------------------------------------
(* Claims about wait_for_completion, checked under Spec *)

\* the "status" entry of a body of the status endpoint, Absent when it has none
BodyStatus(b) ==
    LET d == DictGet(b, "data", b)
    IN IF IsDict(d) THEN DictGet(d, "status", Absent) ELSE Absent

\* the status string the remote service sent in body b is one of S
SentIs(b, S) == BodyStatus(b).t = "str" /\ BodyStatus(b).v \in S

\* the responses decoded from the bodies polled so far, in poll order
DecodedPolls == [i \in 1..Len(polled) |-> _parse_response(polled[i]).resp]

\* the polls so far answered in-flight statuses and then Completed
CompletedAfterInFlight ==
    /\ Len(polled) >= 1
    /\ SentIs(polled[Len(polled)], {"Completed"})
    /\ \A i \in 1..(Len(polled) - 1) : SentIs(polled[i], {"Pending", "Processing", "Staged"})

\* C1: after in-flight responses and one Completed response the wait returns
\* the Completed record, has called the observer once per poll in poll order,
\* and issues no status request and no sleep after the Completed response.
C1_CompletedReturns ==
    CompletedAfterInFlight =>
        /\ pc \in {"callback", "classify", "done"}
        /\ Len(pollTimes) = Len(polled)
        /\ sleeps = Len(polled) - 1
        /\ (pc = "done" /\ outcome.kind # "CallbackError") =>
              /\ outcome = [kind |-> "return", value |-> DecodedPolls[Len(polled)]]
              /\ outcome.value.task.status = "COMPLETED"
        /\ (callback /\ pc \in {"classify", "done"}) => observed = DecodedPolls
        /\ ~callback => observed = <<>>

\* C1 witness: [Pending, Processing, Completed] was polled, the observer saw
\* three records and the wait returned
C1_Witness ==
    /\ pc = "done" /\ callback /\ outcome.kind = "return"
    /\ Len(polled) = 3
    /\ SentIs(polled[1], {"Pending"}) /\ SentIs(polled[2], {"Processing"})
    /\ SentIs(polled[3], {"Completed"})
    /\ Len(observed) = 3 /\ sleeps = 2

\* the error message the remote service sent in body b, JNull when it sent none
SentErrorMessage(b) ==
    LET e == DictGet(DictGet(b, "data", b), "error", JNull)
    IN IF IsDict(e) THEN DictGet(e, "message", JNull) ELSE JNull

\* the last poll answered Failed and no earlier poll answered a terminal status
FailedFirstTerminal ==
    /\ Len(polled) >= 1
    /\ SentIs(polled[Len(polled)], {"Failed"})
    /\ \A i \in 1..(Len(polled) - 1) : ~SentIs(polled[i], {"Completed", "Failed"})

\* C2: when the first terminal response is Failed the wait raises the failure
\* error carrying that response's error message, after the observer has seen
\* every response up to and including it, and no status request follows.
C2_FailedRaises ==
    FailedFirstTerminal =>
        /\ pc \in {"callback", "classify", "done"}
        /\ Len(pollTimes) = Len(polled)
        /\ sleeps = Len(polled) - 1
        /\ (pc = "done" /\ outcome.kind # "CallbackError") =>
              /\ outcome.kind = "RuntimeError"
              /\ outcome.msg[2] = PyFormat(SentErrorMessage(polled[Len(polled)]))
        /\ (callback /\ pc \in {"classify", "done"}) => observed = DecodedPolls

\* C2 witness: [Pending, Failed with an error message] was polled, the observer
\* saw both and the failure error carries the message
C2_Witness ==
    /\ pc = "done" /\ callback /\ outcome.kind = "RuntimeError"
    /\ Len(polled) = 2 /\ Len(observed) = 2
    /\ SentIs(polled[1], {"Pending"}) /\ SentIs(polled[2], {"Failed"})
    /\ outcome.msg[2] = "nsfw content"

\* every status request so far was answered at once and every sleep lasted poll_interval
NegligibleRequests ==
    /\ \A i \in 1..Len(pollTimes) : pollTimes[i] = (i - 1) * poll_interval
    /\ (pc # "poll" /\ pollTimes # <<>>) => Elapsed = pollTimes[Len(pollTimes)]

\* every status request so far was answered Processing
AlwaysProcessing ==
    /\ Len(polled) = Len(pollTimes)
    /\ \A i \in 1..Len(polled) : SentIs(polled[i], {"Processing"})

\* C3: with poll_interval 10, max_wait 25 and a status that stays Processing,
\* the wait issues exactly 3 status requests, at elapsed 0, 10 and 20, and then
\* raises TimeoutError; there is no 4th request.
C3_ThreePollsThenTimeout ==
    (poll_interval = 10 /\ max_wait = 25 /\ AlwaysProcessing /\ NegligibleRequests) =>
        /\ Len(pollTimes) <= 3
        /\ outcome.kind = "TimeoutError" => pollTimes = <<0, 10, 20>>

\* ceil(a / b) for a >= 0, b > 0
CeilDiv(a, b) == (a + b - 1) \div b

\* C4: for max_wait >= 0, one wait issues at most
\* ceil(max_wait / poll_interval) + 1 status requests.
C4_PollBound ==
    max_wait >= 0 => Len(pollTimes) <= CeilDiv(max_wait, poll_interval) + 1

\* C5: (for max_wait >= 0) the wait sleeps only if the sleep does not take the
\* elapsed time past max_wait, so no status request is issued at an elapsed
\* time above max_wait.
C5_NoPollPastDeadline ==
    max_wait >= 0 =>
        /\ pc = "sleep" => Elapsed + poll_interval <= max_wait
        /\ \A i \in 1..Len(pollTimes) : pollTimes[i] <= max_wait

-----------------------------------------------------------------------------
(* kling.py: KlingClient.download_video *)

\* number of download_video calls in one behaviour
MaxDownloads == 2

Paths == {"out.mp4", "other.mp4"}
Urls == {"https://cdn/v.mp4", "https://cdn/gone.mp4"}

\* contents of response bodies and of files: sequences of bytes
PngBytes == <<137, 80, 78, 71>>
Contents == {PngBytes, <<0>>, <<>>}

\* HTTP status codes of the download
DownloadStatusCodes == {200, 404, 500}

FileOf(content) == [t |-> "file", content |-> content]

\* the file system with the response of line 334 never checked: the body is written
\* whatever the status
FilesAfterDownload_NoStatusCheck(fs, output_path, resp) ==
    [fs EXCEPT ![output_path] = FileOf(resp.content)]

\* lines 335-338: raise_for_status(), then open(output_path, "wb") and
\* f.write(response.content)
FilesAfterDownload(fs, output_path, resp) ==
    IF RaisesForStatus(resp.code) THEN fs
    ELSE [fs EXCEPT ![output_path] = FileOf(resp.content)]

\* lines 335 and 340: raise_for_status() raises, or return output_path
DownloadOutcome(output_path, resp) ==
    IF RaisesForStatus(resp.code) THEN [kind |-> "HTTPStatusError", code |-> resp.code]
    ELSE [kind |-> "return", value |-> output_path]

InitDownload ==
    /\ files \in [Paths -> {NoFile, FileOf(<<7, 7>>)}]
    /\ files_before = files
    /\ download_args = <<>>
    /\ http_log = <<>>
    /\ calls = 0
    /\ outcome = NoOutcome
    /\ DecodeIdle /\ WaitIdle /\ ClientIdle /\ GWIdle /\ ConcIdle /\ CtorIdle /\ AppIdle

\* lines 318-340: one call download_video(video_url, output_path); the server
\* answers the GET of line 334 with a status code and a body
DownloadVideo ==
    /\ calls < MaxDownloads
    /\ \E video_url \in Urls, output_path \in Paths,
          code \in DownloadStatusCodes, content \in Contents :
          LET resp == [code |-> code, content |-> content]
          IN /\ download_args' = [video_url |-> video_url, output_path |-> output_path]
             /\ http_log' = <<[method |-> "GET", url |-> video_url, code |-> code,
                               content |-> content]>>
             /\ files_before' = files
             /\ files' = FilesAfterDownload(files, output_path, resp)
             /\ outcome' = DownloadOutcome(output_path, resp)
    /\ calls' = calls + 1
    /\ UNCHANGED <<ctorVars, appVars, decodeVars, waitVars, clientVars, gwVars, waiters>>

NextDownload == DownloadVideo

SpecDownload == InitDownload /\ [][NextDownload]_vars

\* C10: on a success response download_video writes exactly the response bytes
\* to the destination, overwriting what was there, and returns the path; on a
\* non-success response it raises after a single request and the file system
\* is as it was before the call.
C10_DownloadWritesOrRaises ==
    calls > 0 =>
        /\ Len(http_log) = 1
        /\ http_log[1].url = download_args.video_url
        /\ IF http_log[1].code \in 200..299
           THEN /\ outcome = [kind |-> "return", value |-> download_args.output_path]
                /\ files[download_args.output_path] = FileOf(http_log[1].content)
                /\ \A p \in Paths \ {download_args.output_path} : files[p] = files_before[p]
           ELSE /\ outcome.kind = "HTTPStatusError"
                /\ files = files_before

\* C10 witness: a 404 answer left an existing destination file as it was, after
\* an earlier call had written the PNG bytes over it
C10_Witness ==
    /\ calls = 2
    /\ http_log[1].code = 404
    /\ outcome.kind = "HTTPStatusError"
    /\ files[download_args.output_path] = FileOf(PngBytes)
    /\ files_before = files

-----------------------------------------------------------------------------
(* Claims about the observer, unknown statuses and the error kinds, under Spec *)

\* the latest status request was answered, and its body decoded to a task
LastPollDecoded ==
    /\ Len(polled) >= 1
    /\ Len(pollTimes) = Len(polled)
    /\ _parse_response(polled[Len(polled)]).exc = "none"

\* C14: when the observer raises, the exception reaches the caller and the wait
\* ends there: no status request and no sleep follows, whatever the response
\* that was just polled.
C14_ObserverRaiseEndsWait ==
    outcome.kind = "CallbackError" =>
        /\ pc = "done"
        /\ callback
        /\ Len(pollTimes) = Len(observed)
        /\ Len(polled) = Len(observed)
        /\ sleeps = Len(observed) - 1
        /\ observed = DecodedPolls

\* C14 witness: the observer raised on the second response, an in-flight one
C14_Witness ==
    /\ pc = "done" /\ outcome.kind = "CallbackError"
    /\ Len(polled) = 2 /\ Len(pollTimes) = 2 /\ sleeps = 1
    /\ SentIs(polled[2], {"Processing"})
    /\ is_processing(response)

\* the latest status request was answered with a status string that is not one
\* of the five known ones
LastPollUnknown ==
    /\ LastPollDecoded
    /\ BodyStatus(polled[Len(polled)]).t = "str"
    /\ BodyStatus(polled[Len(polled)]).v \notin KnownStatusStrings

\* C15: a response whose status string is unknown is classified as Pending, the
\* observer sees a Pending record, and the wait goes on: it does not return and
\* does not fail on that response, and ends on it only by the deadline.
C15_UnknownStatusIsPending ==
    LastPollUnknown =>
        /\ response.task.status = "PENDING"
        /\ (callback /\ pc # "callback") =>
              /\ Len(observed) = Len(polled)
              /\ observed[Len(observed)].task.status = "PENDING"
        /\ pc = "done" =>
              /\ outcome.kind \in {"TimeoutError", "CallbackError"}
              /\ outcome.kind = "TimeoutError" => Elapsed > max_wait
        /\ pc = "sleep" => Elapsed <= max_wait

\* C15 witness: "Queued" was polled, the observer saw it, and the wait polled
\* again and returned on Completed
C15_Witness ==
    /\ pc = "done" /\ outcome.kind = "return" /\ callback
    /\ Len(polled) = 2
    /\ SentIs(polled[1], {"Queued"}) /\ SentIs(polled[2], {"Completed"})
    /\ observed[1].task.status = "PENDING"

\* C16: the timeout error is raised only when the latest polled status is
\* in-flight and carries max_wait; the failure error is raised only when the
\* latest polled status is Failed and carries the remote error text; the two
\* are different kinds of error.
C16_ErrorKinds ==
    /\ outcome.kind = "TimeoutError" =>
          /\ LastPollDecoded
          /\ ~SentIs(polled[Len(polled)], {"Completed", "Failed"})
          /\ is_processing(response)
          /\ outcome.msg = <<"Video generation timed out after ", max_wait, " seconds">>
    /\ outcome.kind = "RuntimeError" =>
          /\ LastPollDecoded
          /\ SentIs(polled[Len(polled)], {"Failed"})
          /\ outcome.msg[2] = PyFormat(SentErrorMessage(polled[Len(polled)]))

\* C16 witness: the wait timed out on a Staged response after a sleep
C16_Witness ==
    /\ pc = "done" /\ outcome.kind = "TimeoutError"
    /\ sleeps >= 1
    /\ SentIs(polled[Len(polled)], {"Staged"})
    /\ outcome.msg[2] = max_wait

-----------------------------------------------------------------------------
(* Claim about the classification predicates, under SpecDecode *)

\* the classification predicates of kling_models.py that hold of response r
PredicatesTrueOf(r) ==
    {p \in {"is_processing", "is_completed", "is_failed"} :
        \/ p = "is_processing" /\ is_processing(r)
        \/ p = "is_completed" /\ is_completed(r)
        \/ p = "is_failed" /\ is_failed(r)}

\* C19: every decoded record has one of the five statuses, and exactly one of
\* is_processing (Pending, Processing, Staged), is_completed (Completed) and
\* is_failed (Failed) holds of it.
C19_PredicatesPartition ==
    parsed.exc = "none" =>
        /\ parsed.resp.task.status \in {"PENDING", "PROCESSING", "STAGED", "COMPLETED", "FAILED"}
        /\ Cardinality(PredicatesTrueOf(parsed.resp)) = 1
        /\ is_processing(parsed.resp)
              <=> parsed.resp.task.status \in {"PENDING", "PROCESSING", "STAGED"}
        /\ is_completed(parsed.resp) <=> parsed.resp.task.status = "COMPLETED"
        /\ is_failed(parsed.resp) <=> parsed.resp.task.status = "FAILED"

\* C19 witness: a Staged record was decoded and only is_processing holds of it
C19_Witness ==
    /\ parsed.exc = "none"
    /\ SentStatus = JStr("Staged")
    /\ parsed.resp.task.status = "STAGED"
    /\ PredicatesTrueOf(parsed.resp) = {"is_processing"}

-----------------------------------------------------------------------------
(* kling.py: single calls of KlingClient.generate and KlingClient.get_task_status *)

\* kling_models.py line 67: prompt: str = Field(..., max_length=2500)
MaxPromptLength == 2500

\* lengths of the prompts passed to generate
PromptLengths == {12, 2501}

\* lines 221-233: VideoGenerationRequest(prompt=prompt, ...) passes validation
RequestValid(prompt_len) == prompt_len <= MaxPromptLength

\* lines 235-243: the request of generate, POST {base_url}/task
GenerateRequest == [method |-> "POST", path |-> <<"/task">>]

\* HTTP status codes of the task-creation endpoint
GenerateStatusCodes == {200, 401}

\* a body with the given task_id entry and status
TaskBody(tid, status) ==
    WrappedBody([task_id |-> tid, status |-> JStr(status), output |-> Absent,
                 meta |-> Absent, error |-> Absent], JNum(200), JStr("success"))

\* the bodies the task-creation endpoint answers with
GenerateResponses ==
    {TaskBody(JStr("t1"), "Pending"), TaskBody(JStr("t2"), "Processing"),
     TaskBody(Absent, "Pending"), BadDataBody(JNull, JNum(200), Absent)}

\* the bodies the status endpoint answers a single get_task_status call with
StatusCallResponses ==
    WaitResponses \cup {TaskBody(JStr("t2"), "Processing"), TaskBody(Absent, "Completed")}

\* lines 244-247, 266-269: raise_for_status(), response.json(), _parse_response(data)
CallOutcome(code, body) ==
    IF RaisesForStatus(code) THEN [kind |-> "HTTPStatusError", code |-> code]
    ELSE IF _parse_response(body).exc # "none" THEN [kind |-> _parse_response(body).exc]
    ELSE ReturnOf(_parse_response(body).resp)

InitGenerate ==
    /\ op = "generate"
    /\ prompt \in PromptLengths
    /\ task_id_arg = "" /\ requests = <<>>
    /\ pc = "generate"
    /\ now \in StartClocks
    /\ start_time = 0 /\ poll_interval = 0 /\ max_wait = 0 /\ callback = FALSE
    /\ response = JNull /\ polled = <<>> /\ observed = <<>> /\ pollTimes = <<>> /\ sleeps = 0
    /\ outcome = NoOutcome
    /\ DecodeIdle /\ FileIdle /\ GWIdle /\ ConcIdle /\ CtorIdle /\ AppIdle

InitStatus ==
    /\ op = "get_task_status"
    /\ prompt = 0
    /\ task_id_arg \in {"t1", "t2"} /\ requests = <<>>
    /\ pc = "status"
    /\ now \in StartClocks
    /\ start_time = 0 /\ poll_interval = 0 /\ max_wait = 0 /\ callback = FALSE
    /\ response = JNull /\ polled = <<>> /\ observed = <<>> /\ pollTimes = <<>> /\ sleeps = 0
    /\ outcome = NoOutcome
    /\ DecodeIdle /\ FileIdle /\ GWIdle /\ ConcIdle /\ CtorIdle /\ AppIdle

\* lines 188-247: one call generate(prompt): the request model is validated, then one
\* POST is sent and its answer checked and decoded
Generate ==
    /\ pc = "generate"
    /\ pc' = "done"
    /\ IF ~RequestValid(prompt)
       THEN /\ outcome' = [kind |-> "ValidationError"]
            /\ UNCHANGED <<requests, now>>
       ELSE \E d \in 0..MaxReqTime, code \in GenerateStatusCodes, body \in GenerateResponses :
               /\ now' = now + d
               /\ requests' = requests \o RequestsOfCall(GenerateRequest, code)
               /\ outcome' = CallOutcome(code, body)
    /\ UNCHANGED <<ctorVars, appVars, start_time, poll_interval, max_wait, callback, response, polled, observed,
                   pollTimes, sleeps, op, prompt, task_id_arg, decodeVars, fileVars, gwVars,
                   waiters>>

\* lines 249-269: one call get_task_status(task_id) made by the caller itself
GetTaskStatusCall ==
    /\ pc = "status"
    /\ pc' = "done"
    /\ \E d \in 0..MaxReqTime, code \in PollStatusCodes, body \in StatusCallResponses :
          /\ now' = now + d
          /\ requests' = requests \o RequestsOfCall(StatusRequest(task_id_arg), code)
          /\ outcome' = CallOutcome(code, body)
    /\ UNCHANGED <<ctorVars, appVars, start_time, poll_interval, max_wait, callback, response, polled, observed,
                   pollTimes, sleeps, op, prompt, task_id_arg, decodeVars, fileVars, gwVars,
                   waiters>>

InitClient == InitWait \/ InitGenerate \/ InitStatus

NextClient ==
    \/ Generate
    \/ GetTaskStatusCall
    \/ WaitEnter \/ GetTaskStatus \/ InvokeCallback \/ Classify \/ Sleep

\* a caller that calls generate, get_task_status or wait_for_completion
SpecClient == InitClient /\ [][NextClient]_vars

-----------------------------------------------------------------------------
(* Claims about single requests and the task_id, under SpecClient *)

C20_TaskIdKept ==
    op \in {"get_task_status", "wait_for_completion"} =>
        /\ outcome.kind = "return" => outcome.value.task.task_id = task_id_arg
        /\ response # JNull => response.task.task_id = task_id_arg

-----------------------------------------------------------------------------
(* kling.py: KlingClient.generate_and_wait *)

\* line 274: poll_interval: float = 10.0
DefaultPollInterval == 10

\* line 275: max_wait: float = 600.0
DefaultMaxWait == 600

\* line 261: timeout=30.0 of the status request
StatusRequestTimeout == 30

\* the time one status request takes while generate_and_wait waits: none, or the
\* whole timeout
GWRequestTimes == {0, StatusRequestTimeout}

\* output_path arguments: None, "" and a path
OutputPaths == {JNull, JStr(""), JStr("out.mp4")}

\* the bodies the status endpoint answers with while generate_and_wait waits
GWResponses ==
    {StatusBody("Processing", Absent, Absent),
     StatusBody("Completed", UrlOutput, Absent), StatusBody("Completed", EmptyObj, Absent),
     StatusBody("Failed", Absent, ErrorObj), BadDataBody(JNull, JNum(200), Absent)}

\* lines 188-201: the keyword parameters of generate
GenerateParams ==
    {"negative_prompt", "duration", "aspect_ratio", "mode", "version", "cfg_scale",
     "enable_audio", "image_url", "camera_control", "webhook_url"}

\* the names of the **kwargs of generate_and_wait: none, a parameter of generate,
\* the parameters of wait_for_completion
KwargsOpts == {{}, {"duration"}, {"poll_interval", "max_wait"}}

\* the download decided by output_path alone, whatever the result is
ShouldDownload_IgnoresUrl(path, result) == Truthy(path)

\* the download decided by the result alone, whatever output_path is
ShouldDownload_IgnoresPath(path, result) == Truthy(result.task.video_url)

\* line 365: if output_path and result.task.video_url
ShouldDownload(path, result) == Truthy(path) /\ Truthy(result.task.video_url)

\* the next step taken whatever the step before it raised
GwNext_Continue(result, next) == next

\* lines 362-366: each step is awaited outside any try: when it raises,
\* generate_and_wait ends; otherwise the next step runs
GwNext(result, next) == IF result.kind = "return" THEN next ELSE "done"

\* lines 337-338: open(output_path, "wb") needs a path: the write of download_video
\* for an output_path that may be None
FilesAfterOpen(fs, path, resp) ==
    IF path.t = "str" /\ path.v \in DOMAIN fs THEN FilesAfterDownload(fs, path.v, resp) ELSE fs

\* lines 333-340: how download_video ends for an output_path that may be None
DownloadResult(path, resp) ==
    IF RaisesForStatus(resp.code) THEN [kind |-> "HTTPStatusError", code |-> resp.code]
    ELSE IF path.t = "str" /\ path.v \in Paths THEN DownloadOutcome(path.v, resp)
    ELSE [kind |-> "OSError"]

InitGW ==
    /\ op = "generate_and_wait"
    /\ prompt \in PromptLengths
    /\ gw_args \in [output_path : OutputPaths, kwargs : KwargsOpts]
    /\ gw_pc = "generate"
    /\ gw_steps = <<>>
    /\ task_id_arg = "" /\ requests = <<>>
    /\ pc = "off" /\ now = 0 /\ start_time = 0 /\ poll_interval = 0 /\ max_wait = 0
    /\ callback = FALSE /\ response = JNull
    /\ polled = <<>> /\ observed = <<>> /\ pollTimes = <<>> /\ sleeps = 0
    /\ files \in {[p \in Paths |-> NoFile],
                  [p \in Paths |-> IF p = "out.mp4" THEN FileOf(<<7, 7>>) ELSE NoFile]}
    /\ files_before = files
    /\ download_args = <<>> /\ http_log = <<>> /\ calls = 0
    /\ outcome = NoOutcome
    /\ DecodeIdle /\ ConcIdle /\ CtorIdle /\ AppIdle

\* line 362: response = await self.generate(prompt, **kwargs), which raises TypeError
\* for a keyword generate does not have (lines 188-201), and the call of line 363
\* with its arguments: wait_for_completion(response.task.task_id)
\* (the clock is read from line 294 on only, so the time generate takes is left out)
GWGenerate ==
    /\ gw_pc = "generate"
    /\ \E code \in GenerateStatusCodes, body \in GenerateResponses :
          LET accepted == gw_args.kwargs \subseteq GenerateParams
              sent == accepted /\ RequestValid(prompt)
              res == IF ~accepted THEN [kind |-> "TypeError"]
                     ELSE IF sent THEN CallOutcome(code, body)
                     ELSE [kind |-> "ValidationError"]
          IN /\ now' = now
             /\ requests' = IF sent THEN requests \o RequestsOfCall(GenerateRequest, code)
                            ELSE requests
             /\ gw_steps' = Append(gw_steps, [step |-> "generate", result |-> res])
             /\ gw_pc' = GwNext(res, "wait")
             /\ outcome' = IF res.kind = "return" THEN outcome ELSE res
             /\ task_id_arg' = IF res.kind = "return" THEN res.value.task.task_id
                               ELSE task_id_arg
             /\ pc' = IF res.kind = "return" THEN "entry" ELSE pc
             /\ poll_interval' = IF res.kind = "return" THEN DefaultPollInterval
                                 ELSE poll_interval
             /\ max_wait' = IF res.kind = "return" THEN DefaultMaxWait ELSE max_wait
    /\ callback' = FALSE
    /\ UNCHANGED <<ctorVars, appVars, start_time, response, polled, observed, pollTimes, sleeps, op, prompt,
                   gw_args, decodeVars, fileVars, waiters>>

\* line 294, inside the call of line 363
GWWaitEnter ==
    /\ gw_pc = "wait" /\ pc = "entry"
    /\ start_time' = now
    /\ pc' = "poll"
    /\ UNCHANGED <<ctorVars, appVars, now, poll_interval, max_wait, callback, response, polled, observed,
                   pollTimes, sleeps, outcome, decodeVars, fileVars, clientVars, gwVars,
                   waiters>>

\* lines 296-314, inside the call of line 363: one iteration of the loop up to the
\* sleep (no callback is passed); the histories polled, observed and pollTimes are
\* not kept here
GWPoll ==
    /\ gw_pc = "wait" /\ pc = "poll"
    /\ \E d \in GWRequestTimes, code \in PollStatusCodes, body \in GWResponses :
          LET got == CallOutcome(code, body)
              res == IF got.kind = "return"
                     THEN WaitVerdict(got.value, (now + d) - start_time, max_wait)
                     ELSE got
          IN /\ now' = now + d
             /\ requests' = requests \o RequestsOfCall(StatusRequest(task_id_arg), code)
             /\ response' = IF got.kind = "return" THEN got.value ELSE response
             /\ IF res.kind = "continue"
                THEN /\ pc' = "sleep"
                     /\ UNCHANGED <<gw_pc, gw_steps, outcome>>
                ELSE /\ pc' = "done"
                     /\ gw_steps' = Append(gw_steps, [step |-> "wait", result |-> res])
                     /\ gw_pc' = GwNext(res, "after_wait")
                     /\ outcome' = IF res.kind = "return" THEN outcome ELSE res
    /\ UNCHANGED <<ctorVars, appVars, start_time, poll_interval, max_wait, callback, polled, observed, pollTimes,
                   sleeps, op, prompt, task_id_arg, gw_args, decodeVars, fileVars, waiters>>

\* line 316, inside the call of line 363
GWSleep ==
    /\ gw_pc = "wait" /\ pc = "sleep"
    /\ now' = ClockAfterSleep(now, poll_interval)
    /\ sleeps' = sleeps + 1
    /\ pc' = "poll"
    /\ UNCHANGED <<ctorVars, appVars, start_time, poll_interval, max_wait, callback, response, polled,
                   observed, pollTimes, outcome, decodeVars, fileVars, clientVars, gwVars,
                   waiters>>

\* lines 365-368: download when output_path and result.task.video_url, return result
GWAfterWait ==
    /\ gw_pc = "after_wait"
    /\ gw_pc' = "done"
    /\ IF response # JNull /\ ShouldDownload(gw_args.output_path, response)
       THEN \E code \in DownloadStatusCodes, content \in Contents :
               LET resp == [code |-> code, content |-> content]
                   res == DownloadResult(gw_args.output_path, resp)
               IN /\ download_args' = [video_url |-> response.task.video_url,
                                       output_path |-> gw_args.output_path]
                  /\ http_log' = <<[method |-> "GET", url |-> response.task.video_url,
                                    code |-> code, content |-> content]>>
                  /\ calls' = calls + 1
                  /\ files' = FilesAfterOpen(files, gw_args.output_path, resp)
                  /\ gw_steps' = Append(gw_steps, [step |-> "download", result |-> res])
                  /\ outcome' = IF res.kind = "return" THEN ReturnOf(response) ELSE res
       ELSE /\ outcome' = IF response # JNull THEN ReturnOf(response)
                          ELSE [kind |-> "AttributeError"]
            /\ UNCHANGED <<files, download_args, http_log, calls, gw_steps>>
    /\ UNCHANGED <<ctorVars, appVars, files_before, waitVars, clientVars, gw_args, decodeVars, waiters>>

NextGW == GWGenerate \/ GWWaitEnter \/ GWPoll \/ GWSleep \/ GWAfterWait

SpecGW == InitGW /\ [][NextGW]_vars

-----------------------------------------------------------------------------
(* Claims about generate_and_wait, under SpecGW *)

\* the steps of generate_and_wait that ran so far, by name
StepsRun == [i \in 1..Len(gw_steps) |-> gw_steps[i].step]

\* C11: called without a destination path, generate_and_wait never invokes the
\* downloader, whatever the wait gives, a Completed task with a result URL
\* included.
C11_NoPathNoDownload ==
    gw_args.output_path = JNull =>
        /\ calls = 0
        /\ http_log = <<>>
        /\ files = files_before
        /\ \A i \in 1..Len(gw_steps) : gw_steps[i].step # "download"
        /\ (gw_pc = "done" /\ Len(gw_steps) = 2 /\ gw_steps[2].result.kind = "return")
              => outcome = gw_steps[2].result

\* C11 witness: no destination path, the task completed with a result URL and
\* generate_and_wait returned it
C11_Witness ==
    /\ gw_args.output_path = JNull
    /\ gw_pc = "done" /\ outcome.kind = "return"
    /\ outcome.value.task.status = "COMPLETED"
    /\ Truthy(outcome.value.task.video_url)
    /\ sleeps >= 1

\* the requests sent so far that are status requests
StatusRequestsSent == {i \in 1..Len(requests) : requests[i].method = "GET"}

\* C12: a step that fails ends generate_and_wait: after a failed generate no
\* status request is sent and nothing is downloaded; after a failed wait nothing
\* is downloaded; the caller gets the error of the failed step.
C12_FailureShortCircuits ==
    /\ (Len(gw_steps) >= 1 /\ gw_steps[1].result.kind # "return") =>
          /\ gw_pc = "done"
          /\ StepsRun = <<"generate">>
          /\ StatusRequestsSent = {}
          /\ calls = 0 /\ files = files_before
          /\ outcome = gw_steps[1].result
    /\ (Len(gw_steps) >= 2 /\ gw_steps[2].result.kind # "return") =>
          /\ gw_pc = "done"
          /\ StepsRun = <<"generate", "wait">>
          /\ calls = 0 /\ files = files_before
          /\ outcome = gw_steps[2].result
    /\ (Len(gw_steps) >= 3 /\ gw_steps[3].result.kind # "return") =>
          /\ gw_pc = "done"
          /\ outcome = gw_steps[3].result
          /\ files = files_before

\* C12 witness: with a destination path given, the wait timed out after the
\* default max_wait and nothing was downloaded
C12_Witness ==
    /\ gw_args.output_path = JStr("out.mp4")
    /\ gw_pc = "done"
    /\ outcome.kind = "TimeoutError"
    /\ StepsRun = <<"generate", "wait">>
    /\ calls = 0

-----------------------------------------------------------------------------
(* kling.py: two wait_for_completion coroutines on one KlingClient, run by one
   event loop. A coroutine gives up control only at its awaits: the request of
   line 262 and the sleep of line 316; between them it runs without interruption. *)

WaiterIds == {1, 2}

\* the arguments of the two calls: task_id, poll_interval, max_wait, callback
WaiterArgs ==
    <<[task_id |-> "t1", poll_interval |-> 2, max_wait |-> 3, callback |-> TRUE],
      [task_id |-> "t2", poll_interval |-> 3, max_wait |-> 4, callback |-> FALSE]>>

\* the latest time at which a call is started
MaxEntryTime == 2

\* the time one status request takes
ConcRequestTimes == {0, 1}

\* the bodies the status endpoint answers with
ConcResponses ==
    {StatusBody("Processing", Absent, Absent), StatusBody("Completed", UrlOutput, Absent),
     StatusBody("Failed", Absent, ErrorObj)}

\* a call not started yet
IdleWaiter ==
    [pc |-> "idle", start_time |-> 0, entered_at |-> 0, due |-> 0, dur |-> 0,
     hist |-> <<>>, log |-> <<>>, outcome |-> NoOutcome]

\* start_time kept in one place for all the calls of the client
StartTimesAfterEntry_Shared(ws, w, t) ==
    [x \in DOMAIN ws |-> IF x = w THEN [ws[x] EXCEPT !.start_time = t, !.entered_at = t,
                                                     !.pc = "poll"]
                         ELSE [ws[x] EXCEPT !.start_time = t]]

\* line 294: start_time = time.time() is a local variable of the call
StartTimesAfterEntry(ws, w, t) ==
    [ws EXCEPT ![w].start_time = t, ![w].entered_at = t, ![w].pc = "poll"]

\* the request sent without awaiting its response
PcAfterSend_NoAwait == "poll"

\* line 262: response = await client.get(...): the coroutine is suspended until
\* the response is there
PcAfterSend == "inflight"

InitConc ==
    /\ op = "wait_for_completion x2"
    /\ prompt = 0 /\ task_id_arg = "" /\ requests = <<>>
    /\ waiters = [w \in WaiterIds |-> IdleWaiter]
    /\ WaitIdle /\ outcome = NoOutcome
    /\ DecodeIdle /\ FileIdle /\ GWIdle /\ CtorIdle /\ AppIdle

\* lines 294-296: the call starts, reads the clock and reaches the first request
CEnter(w) ==
    /\ waiters[w].pc = "idle"
    /\ now <= MaxEntryTime
    /\ waiters' = StartTimesAfterEntry(waiters, w, now)
    /\ UNCHANGED <<ctorVars, appVars, decodeVars, waitVars, fileVars, clientVars, gwVars, outcome>>

\* lines 259-262 (called from line 297): the status request for the call's task_id
\* is sent
CSend(w) ==
    /\ waiters[w].pc = "poll"
    /\ \E d \in ConcRequestTimes :
          waiters' = [waiters EXCEPT
                         ![w].pc = PcAfterSend,
                         ![w].dur = d,
                         ![w].due = now + d,
                         ![w].log = Append(@, [e |-> "send",
                                               req |-> StatusRequest(WaiterArgs[w].task_id)])]
    /\ UNCHANGED <<ctorVars, appVars, decodeVars, waitVars, fileVars, clientVars, gwVars, outcome>>

\* lines 262-316: the response is there; raise_for_status, _parse_response, the
\* callback, the classification and the start of the sleep follow without an await
CReceive(w) ==
    /\ waiters[w].pc = "inflight"
    /\ now = waiters[w].due
    /\ \E code \in PollStatusCodes, body \in ConcResponses, raised \in BOOLEAN :
          LET a == WaiterArgs[w]
              got == CallOutcome(code, body)
              called == got.kind = "return" /\ a.callback
              res == IF got.kind # "return" THEN got
                     ELSE IF called /\ PcAfterCallback(raised) = "done"
                     THEN [kind |-> "CallbackError"]
                     ELSE WaitVerdict(got.value, now - waiters[w].start_time, a.max_wait)
              events == <<[e |-> "recv"]>>
                        \o (IF called THEN <<[e |-> "callback"]>> ELSE <<>>)
                        \o (IF res.kind = "continue" THEN <<[e |-> "sleep"]>> ELSE <<>>)
          IN /\ (raised => called)
             /\ waiters' = [waiters EXCEPT
                               ![w].hist = Append(@, [code |-> code, body |-> body,
                                                      d |-> waiters[w].dur, raised |-> raised]),
                               ![w].log = @ \o events,
                               ![w].pc = IF res.kind = "continue" THEN "sleeping" ELSE "done",
                               ![w].due = IF res.kind = "continue" THEN now + a.poll_interval
                                          ELSE @,
                               ![w].outcome = IF res.kind = "continue" THEN @ ELSE res]
    /\ UNCHANGED <<ctorVars, appVars, decodeVars, waitVars, fileVars, clientVars, gwVars, outcome>>

\* line 316: await asyncio.sleep(poll_interval) is over
CWake(w) ==
    /\ waiters[w].pc = "sleeping"
    /\ now = waiters[w].due
    /\ waiters' = [waiters EXCEPT ![w].pc = "poll", ![w].log = Append(@, [e |-> "wake"])]
    /\ UNCHANGED <<ctorVars, appVars, decodeVars, waitVars, fileVars, clientVars, gwVars, outcome>>

\* the calls suspended at an await
Suspended == {w \in WaiterIds : waiters[w].pc \in {"inflight", "sleeping"}}

\* time passes while every started call is suspended at an await, up to the next
\* response or end of sleep
Tick ==
    /\ \A w \in WaiterIds : waiters[w].pc # "poll"
    /\ \A w \in Suspended : now < waiters[w].due
    /\ \/ Suspended # {}
       \/ \E w \in WaiterIds : waiters[w].pc = "idle" /\ now < MaxEntryTime
    /\ now' = now + 1
    /\ UNCHANGED <<ctorVars, appVars, decodeVars, start_time, poll_interval, max_wait, callback, response,
                   polled, observed, pollTimes, sleeps, pc, fileVars, clientVars, gwVars,
                   outcome, waiters>>

NextConc ==
    \/ \E w \in WaiterIds : CEnter(w)
    \/ \E w \in WaiterIds : CSend(w)
    \/ \E w \in WaiterIds : CReceive(w)
    \/ \E w \in WaiterIds : CWake(w)
    \/ Tick

SpecConc == InitConc /\ [][NextConc]_vars

\* lines 294-316 for one call alone: the result and the number of polls of the loop
\* with arguments a, fed the responses h[i..] (each with the time its request took
\* and whether the callback raised), i-1 polls and e seconds after its entry
RECURSIVE AloneRun(_, _, _, _)
AloneRun(a, h, i, e) ==
    IF i > Len(h) THEN [result |-> [kind |-> "continue"], polls |-> Len(h)]
    ELSE LET got == CallOutcome(h[i].code, h[i].body)
             res == IF got.kind # "return" THEN got
                    ELSE IF a.callback /\ h[i].raised THEN [kind |-> "CallbackError"]
                    ELSE WaitVerdict(got.value, e + h[i].d, a.max_wait)
         IN IF res.kind # "continue" THEN [result |-> res, polls |-> i]
            ELSE AloneRun(a, h, i + 1, e + h[i].d + a.poll_interval)

-----------------------------------------------------------------------------
(* Claims about concurrent waits, under SpecConc *)

\* the number of events named e in a log
RECURSIVE CountEvents(_, _)
CountEvents(log, e) ==
    IF log = <<>> THEN 0
    ELSE (IF log[Len(log)].e = e THEN 1 ELSE 0) + CountEvents(SubSeq(log, 1, Len(log) - 1), e)

\* the status requests of call w that are sent and not answered yet
InFlight(w) == CountEvents(waiters[w].log, "send") - CountEvents(waiters[w].log, "recv")

\* the events of call w before position i, latest first, as names
Before(w, i, k) == IF i - k >= 1 THEN waiters[w].log[i - k].e ELSE "start"

\* C17: the status requests of one call are strictly sequential: at most one is
\* in flight, and every request after the first is sent only after the previous
\* response returned, the callback (if any) ran on it, and the sleep ended.
C17_SequentialPolls ==
    \A w \in WaiterIds :
        /\ InFlight(w) \in {0, 1}
        /\ (InFlight(w) = 1) <=> (waiters[w].pc = "inflight")
        /\ \A i \in 1..Len(waiters[w].log) :
              waiters[w].log[i].e = "send" =>
                  \/ i = 1
                  \/ /\ Before(w, i, 1) = "wake"
                     /\ Before(w, i, 2) = "sleep"
                     /\ IF WaiterArgs[w].callback
                        THEN Before(w, i, 3) = "callback" /\ Before(w, i, 4) = "recv"
                             /\ Before(w, i, 5) = "send"
                        ELSE Before(w, i, 3) = "recv" /\ Before(w, i, 4) = "send"

\* C17 witness: both calls are in their second request at the same time, the
\* one with a callback after its callback ran
C17_Witness ==
    /\ \A w \in WaiterIds : waiters[w].pc = "inflight" /\ Len(waiters[w].hist) = 1
    /\ CountEvents(waiters[1].log, "callback") = 1

\* C18: two concurrent calls for different task_ids do not interact: each ends
\* with the result and the number of polls it has alone on the same responses,
\* measures its deadline from its own entry, and asks for its own task only.
C18_WaitersIndependent ==
    \A w \in WaiterIds :
        LET me == waiters[w]
            alone == AloneRun(WaiterArgs[w], me.hist, 1, 0)
        IN /\ me.pc = "done" => /\ me.outcome = alone.result
                                /\ Len(me.hist) = alone.polls
           /\ me.pc \in {"poll", "inflight", "sleeping"} =>
                 alone = [result |-> [kind |-> "continue"], polls |-> Len(me.hist)]
           /\ me.pc # "idle" => me.start_time = me.entered_at
           /\ \A i \in 1..Len(me.log) :
                 me.log[i].e = "send" => me.log[i].req = StatusRequest(WaiterArgs[w].task_id)

\* C18 witness: the calls started at different times and interleaved their
\* polls; one timed out and the other returned a completed task
C18_Witness ==
    /\ waiters[1].pc = "done" /\ waiters[2].pc = "done"
    /\ waiters[1].entered_at # waiters[2].entered_at
    /\ waiters[1].outcome.kind = "TimeoutError"
    /\ waiters[2].outcome.kind = "return"
    /\ Len(waiters[1].hist) >= 2 /\ Len(waiters[2].hist) >= 2

-----------------------------------------------------------------------------
(* Claims about what the wait sends and the order of its checks, under Spec *)

\* C21: wait_for_completion sends only GET status requests for its task_id, one
\* per poll: on no exit path does it send a cancellation or another request,
\* and no request carries max_wait.
C21_OnlyStatusRequests ==
    /\ \A i \in 1..Len(requests) :
          requests[i] = [method |-> "GET", path |-> <<"/task/", task_id_arg>>]
    /\ Len(requests) = Len(pollTimes)
    /\ pc = "done" => Len(requests) = sleeps + 1

\* C21 witness: the wait timed out after three polls
C21_Witness ==
    /\ pc = "done" /\ outcome.kind = "TimeoutError"
    /\ Len(requests) = 3 /\ sleeps = 2

\* the wait ended on the classification of a decoded response
EndedOnClassify ==
    pc = "done" /\ LastPollDecoded /\ outcome.kind \in {"return", "RuntimeError", "TimeoutError"}

\* C24: a terminal status takes precedence over the deadline: a poll answered
\* Completed returns the record and a poll answered Failed raises the failure
\* error even when the elapsed time exceeds max_wait; no timeout is raised for
\* a poll answered with a terminal status.
C24_TerminalBeforeDeadline ==
    EndedOnClassify =>
        LET r == _parse_response(polled[Len(polled)]).resp
        IN /\ SentIs(polled[Len(polled)], {"Completed"}) => outcome = ReturnOf(r)
           /\ SentIs(polled[Len(polled)], {"Failed"}) => outcome = FailureError(r)

\* C24 witness: the wait returned a Completed record polled after the deadline
C24_Witness ==
    /\ EndedOnClassify
    /\ SentIs(polled[Len(polled)], {"Completed"})
    /\ outcome.kind = "return"
    /\ sleeps >= 1
    /\ Elapsed > max_wait

\* C25: before a timeout is raised at least one status request was sent and, if
\* there is an observer, it was called at least once, for every max_wait.
C25_PollBeforeTimeout ==
    outcome.kind = "TimeoutError" =>
        /\ Len(requests) >= 1
        /\ Len(polled) >= 1
        /\ callback => Len(observed) >= 1

\* C25 witness: with a negative max_wait and an observer the wait timed out on
\* its first poll
C25_Witness ==
    /\ pc = "done" /\ outcome.kind = "TimeoutError"
    /\ max_wait < 0 /\ callback
    /\ Len(requests) = 1 /\ Len(observed) = 1 /\ sleeps = 0

-----------------------------------------------------------------------------
(* kling.py: wait_for_completion without the histories of Spec (polled, observed,
   pollTimes, sleeps and requests are not kept), so that the loop is a finite
   graph; the event loop runs the coroutine whenever it can run *)

\* line 294
LoopEnter ==
    /\ op = "wait_for_completion" /\ pc = "entry"
    /\ start_time' = now
    /\ pc' = "iterate"
    /\ UNCHANGED <<ctorVars, appVars, now, poll_interval, max_wait, callback, response, polled, observed,
                   pollTimes, sleeps, outcome, decodeVars, fileVars, clientVars, gwVars,
                   waiters>>

\* lines 296-314: one iteration of the loop up to the sleep
LoopIterate ==
    /\ pc = "iterate"
    /\ \E d \in 0..MaxReqTime, code \in PollStatusCodes, body \in WaitResponses,
          raised \in BOOLEAN :
          LET got == CallOutcome(code, body)
              called == got.kind = "return" /\ callback
              res == IF got.kind # "return" THEN got
                     ELSE IF called /\ PcAfterCallback(raised) = "done"
                     THEN [kind |-> "CallbackError"]
                     ELSE WaitVerdict(got.value, (now + d) - start_time, max_wait)
          IN /\ (raised => called)
             /\ now' = now + d
             /\ response' = IF got.kind = "return" THEN got.value ELSE response
             /\ pc' = IF res.kind = "continue" THEN "wake" ELSE "done"
             /\ outcome' = IF res.kind = "continue" THEN outcome ELSE res
    /\ UNCHANGED <<ctorVars, appVars, start_time, poll_interval, max_wait, callback, polled, observed,
                   pollTimes, sleeps, decodeVars, fileVars, clientVars, gwVars, waiters>>

\* line 316
LoopSleep ==
    /\ pc = "wake"
    /\ now' = ClockAfterSleep(now, poll_interval)
    /\ pc' = "iterate"
    /\ UNCHANGED <<ctorVars, appVars, start_time, poll_interval, max_wait, callback, response, polled,
                   observed, pollTimes, sleeps, outcome, decodeVars, fileVars, clientVars,
                   gwVars, waiters>>

NextLoop == LoopEnter \/ LoopIterate \/ LoopSleep

SpecLoop == InitWait /\ [][NextLoop]_vars /\ WF_vars(NextLoop)

-----------------------------------------------------------------------------
(* Claim about termination, under SpecLoop *)

\* C22: with poll_interval > 0 and time advancing by poll_interval on each
\* sleep, the wait eventually ends, whatever the responses: it returns, raises
\* the failure error or an error of the poll, or raises the timeout.
C22_WaitTerminates == <>(pc = "done" /\ outcome.kind # "none")

\* C22 witness: the wait ended by the timeout after at least one sleep, on a
\* response still in flight
C22_Witness ==
    /\ pc = "done" /\ outcome.kind = "TimeoutError"
    /\ poll_interval > 0
    /\ now - start_time >= poll_interval
    /\ is_processing(response)

-----------------------------------------------------------------------------
(* kling.py: KlingClient.__init__ and config.py: Config *)

\* the api_key argument: None (the default), "" and keys
ApiKeyArgs == {JNull, JStr(""), JStr("arg-key"), JStr("arg-key-2"), JStr(" ")}

\* config.py lines 26, 30: os.getenv(name, ""): always a string, "" when unset
ConfiguredKeys == {JStr(""), JStr("env-key"), JStr("env-key-2")}

\* config.py lines 27, 31
PIAPI_BASE_URL == "https://api.piapi.ai/api/v1"
KLING_BASE_URL == "https://api.klingai.com/v1"

\* the configured key preferred to the argument
SelectKey_ConfiguredFirst(api_key, configured) ==
    IF Truthy(configured) THEN configured ELSE api_key

\* lines 60, 63: api_key or Config.<KEY>
SelectKey(api_key, configured) == IF Truthy(api_key) THEN api_key ELSE configured

\* lines 59-73: the attributes __init__ sets, or the ValueError it raises
KlingClientInit(args, cfg) ==
    LET key == IF args.use_direct_api THEN SelectKey(args.api_key, cfg.KLING_API_KEY)
               ELSE SelectKey(args.api_key, cfg.PIAPI_API_KEY)
        url == IF args.use_direct_api THEN KLING_BASE_URL ELSE PIAPI_BASE_URL
    IN IF ~Truthy(key) THEN [exc |-> "ValueError"]
       ELSE [exc |-> "none",
             self |-> [api_key |-> key, base_url |-> url,
                       use_direct_api |-> args.use_direct_api]]

\* lines 75-80: _get_headers
GetHeaders(self) == [content_type |-> "application/json", x_api_key |-> self.api_key]

InitCtor ==
    /\ op = "__init__"
    /\ config \in [PIAPI_API_KEY : ConfiguredKeys, KLING_API_KEY : ConfiguredKeys]
    /\ init_args \in [api_key : ApiKeyArgs, use_direct_api : BOOLEAN]
    /\ client = NoClient
    /\ outcome = NoOutcome
    /\ prompt = 0 /\ task_id_arg = "" /\ requests = <<>>
    /\ DecodeIdle /\ WaitIdle /\ FileIdle /\ GWIdle /\ ConcIdle /\ AppIdle

\* lines 48-73: KlingClient(api_key, use_direct_api)
Construct ==
    /\ op = "__init__" /\ client = NoClient /\ outcome = NoOutcome
    /\ LET r == KlingClientInit(init_args, config)
       IN IF r.exc = "none"
          THEN client' = r.self /\ outcome' = [kind |-> "return"]
          ELSE client' = client /\ outcome' = [kind |-> r.exc]
    /\ UNCHANGED <<config, init_args, appVars, decodeVars, waitVars, fileVars, clientVars,
                   gwVars, waiters>>

\* lines 259-265: the first status request of the built client, with the headers of
\* _get_headers
FirstRequest ==
    /\ op = "__init__" /\ client # NoClient /\ requests = <<>>
    /\ \E tid \in {"t1", "t2"} :
          requests' = <<[method |-> "GET", url |-> <<client.base_url, "/task/", tid>>,
                         headers |-> GetHeaders(client)]>>
    /\ UNCHANGED <<ctorVars, appVars, decodeVars, waitVars, fileVars, op, prompt,
                   task_id_arg, gwVars, waiters, outcome>>

NextCtor == Construct \/ FirstRequest

SpecCtor == InitCtor /\ [][NextCtor]_vars

-----------------------------------------------------------------------------
(* Claim about the construction of the client, under SpecCtor *)

\* the key configured for the mode chosen by use_direct_api
ConfiguredForMode ==
    IF init_args.use_direct_api THEN config.KLING_API_KEY ELSE config.PIAPI_API_KEY

\* the api_key argument is None or ""
NoKeyArgument == init_args.api_key \in {JNull, JStr("")}

\* C23: building the client raises ValueError, and no request can follow,
\* exactly when the api_key argument is empty and the key configured for the
\* chosen mode is empty; a non-empty api_key argument is the key used,
\* whatever is configured.
C23_KeyRequired ==
    /\ outcome.kind # "none" =>
          /\ (outcome.kind = "ValueError") <=> (NoKeyArgument /\ ConfiguredForMode = JStr(""))
          /\ outcome.kind \in {"ValueError", "return"}
          /\ (outcome.kind = "return") <=> (client # NoClient)
    /\ client # NoClient =>
          /\ ~NoKeyArgument => client.api_key = init_args.api_key
          /\ NoKeyArgument => client.api_key = ConfiguredForMode
          /\ client.use_direct_api = init_args.use_direct_api
    /\ requests # <<>> =>
          /\ client # NoClient
          /\ requests[1].headers.x_api_key = client.api_key
          /\ requests[1].headers.x_api_key # JStr("")

\* C23 witness: with no api_key argument and the direct mode, KLING_API_KEY is
\* unset while PIAPI_API_KEY is set: the construction raised ValueError
C23_Witness ==
    /\ outcome.kind = "ValueError"
    /\ init_args = [api_key |-> JNull, use_direct_api |-> TRUE]
    /\ config.KLING_API_KEY = JStr("") /\ config.PIAPI_API_KEY = JStr("env-key")

-----------------------------------------------------------------------------
(* Claim about the download of generate_and_wait, under SpecGW *)

\* the wait of generate_and_wait returned a record
WaitReturned == Len(gw_steps) >= 2 /\ gw_steps[2].result.kind = "return"

\* the record the wait returned is Completed with a non-empty video_url
ReturnedWithUrl ==
    /\ WaitReturned
    /\ gw_steps[2].result.value.task.status = "COMPLETED"
    /\ gw_steps[2].result.value.task.video_url.t = "str"
    /\ gw_steps[2].result.value.task.video_url.v # ""

\* C26: with a destination path, generate_and_wait downloads if and only if
\* the wait returned a Completed record with a non-empty video_url; a Completed
\* record without video_url is returned without a download and without an
\* error; the wait always runs with poll_interval 10 and max_wait 600,
\* whatever keyword arguments were passed.
C26_DownloadIffUrl ==
    /\ (gw_pc = "done" /\ gw_args.output_path = JStr("out.mp4")) =>
          /\ ("download" \in {gw_steps[i].step : i \in 1..Len(gw_steps)}) <=> ReturnedWithUrl
          /\ (calls = 1) <=> ReturnedWithUrl
          /\ calls \in {0, 1}
    /\ (gw_pc = "done" /\ WaitReturned /\ ~ReturnedWithUrl) =>
          /\ outcome = gw_steps[2].result
          /\ calls = 0 /\ files = files_before
    /\ pc # "off" =>
          /\ poll_interval = 10 /\ max_wait = 600
          /\ gw_args.kwargs \cap {"poll_interval", "max_wait"} = {}
    /\ outcome.kind = "TimeoutError" =>
          outcome.msg = <<"Video generation timed out after ", 600, " seconds">>

\* C26 witness: with a destination path and a keyword argument, the task
\* completed without a video_url and the record was returned with no download
C26_Witness ==
    /\ gw_pc = "done"
    /\ gw_args = [output_path |-> JStr("out.mp4"), kwargs |-> {"duration"}]
    /\ WaitReturned /\ ~ReturnedWithUrl
    /\ outcome.kind = "return"
    /\ calls = 0

-----------------------------------------------------------------------------
(* backend/app.py: the processed file, process_video, check_new_videos and the
   /summarize handler, run one after the other *)

VideoIds == {"v1", "v2", "v3"}

\* the number of check_new_videos and /summarize calls followed
MaxRuns == 2

\* PROCESSED_FILE: absent, not decodable as JSON, or {"processed": [...], ...}
FileAbsent == [t |-> "absent"]
FileInvalid == [t |-> "invalid"]
FileOfIds(S) == [t |-> "json", processed |-> S]

\* lines 45-51: load_processed_videos: the set of ids, or the exception of json.load
load_processed_videos(f) ==
    IF f.t = "absent" THEN [exc |-> "none", value |-> {}]
    ELSE IF f.t = "invalid" THEN [exc |-> "JSONDecodeError"]
    ELSE [exc |-> "none", value |-> f.processed]

\* lines 54-59: save_processed_video: the file afterwards, or the exception of the load
save_processed_video(f, video_id) ==
    IF load_processed_videos(f).exc # "none"
    THEN [exc |-> load_processed_videos(f).exc, file |-> f]
    ELSE [exc |-> "none", file |-> FileOfIds(load_processed_videos(f).value \cup {video_id})]

\* the processed file updated before the transcript is fetched
ProcessSteps_MarkFirst ==
    <<"save_processed_video", "get_transcript", "generate_summary", "save_summary">>

\* lines 240-254: the calls in the try block of process_video, in order
ProcessSteps ==
    <<"get_transcript", "generate_summary", "save_summary", "save_processed_video">>

\* which call of process_video raises, if any
Fates == {"ok", "get_transcript", "generate_summary", "save_summary", "save_processed_video"}

\* an exception of a call left to the caller of process_video
ProcessVideoEnd_Propagates(failed) ==
    IF failed THEN [kind |-> "raise"] ELSE [kind |-> "return", value |-> "data"]

\* lines 255-259: return data, or None after `except Exception`
ProcessVideoEnd(failed) ==
    IF failed THEN [kind |-> "return", value |-> "None"]
    ELSE [kind |-> "return", value |-> "data"]

\* lines 240-254: the calls of steps from the i-th on for video v, where the call named
\* fate raises; st holds the processed file, the summaries and the calls made so far
RECURSIVE DoSteps(_, _, _, _, _)
DoSteps(steps, i, v, fate, st) ==
    IF i > Len(steps) \/ st.failed THEN st
    ELSE LET call == steps[i]
             marked == save_processed_video(st.file, v)
             ok == /\ call # fate
                   /\ call = "save_processed_video" => marked.exc = "none"
             after == [file |-> IF ok /\ call = "save_processed_video" THEN marked.file
                                ELSE st.file,
                       summaries |-> IF ok /\ call = "save_summary"
                                     THEN [st.summaries EXCEPT ![v] = @ + 1]
                                     ELSE st.summaries,
                       calls |-> Append(st.calls, [call |-> call, ok |-> ok]),
                       failed |-> ~ok]
         IN DoSteps(steps, i + 1, v, fate, after)

\* lines 232-259: process_video(video_info) on the processed file f and summaries s
process_video(v, fate, f, s) ==
    LET st == DoSteps(ProcessSteps, 1, v, fate,
                      [file |-> f, summaries |-> s, calls |-> <<>>, failed |-> FALSE])
    IN [id |-> v, calls |-> st.calls, end |-> ProcessVideoEnd(st.failed),
        file_before |-> f, file_after |-> st.file, summaries |-> st.summaries]

\* every listed video taken as new
NewVideos_All(videos, processed) == videos

\* line 270: new_videos = [v for v in videos if v["video_id"] not in processed]
NewVideos(videos, processed) == SelectSeq(videos, LAMBDA v : v \notin processed)

\* lines 274-275: for video in new_videos: process_video(video); the loop ends when a
\* call raises; done holds the calls made so far
RECURSIVE ProcessAll(_, _, _, _, _, _)
ProcessAll(new, j, fates, f, s, done) ==
    IF j > Len(new) THEN [file |-> f, summaries |-> s, calls |-> done, caught |-> FALSE]
    ELSE LET r == process_video(new[j], fates[j], f, s)
         IN IF r.end.kind = "raise"
            THEN [file |-> r.file_after, summaries |-> r.summaries,
                  calls |-> Append(done, r), caught |-> TRUE]
            ELSE ProcessAll(new, j + 1, fates, r.file_after, r.summaries, Append(done, r))

\* lines 62-97: get_playlist_videos returns the playlist, which may hold a video
\* twice, or raises
Listings ==
    {[exc |-> "Exception"]}
    \cup {[exc |-> "none", videos |-> l] : l \in UNION {[1..n -> VideoIds] : n \in 0..2}}

NoRun == [kind |-> "none", n |-> 0]

InitApp ==
    /\ op = "backend"
    /\ processed_file \in {FileAbsent, FileInvalid, FileOfIds({}), FileOfIds({"v3"})}
    /\ summaries = [v \in VideoIds |-> 0]
    /\ run = NoRun
    /\ threads = <<>>
    /\ prompt = 0 /\ task_id_arg = "" /\ requests = <<>> /\ outcome = NoOutcome
    /\ DecodeIdle /\ WaitIdle /\ FileIdle /\ GWIdle /\ ConcIdle /\ CtorIdle

\* lines 262-280: one call of check_new_videos, from the scheduler or from /check
CheckNewVideos ==
    /\ op = "backend" /\ run.n < MaxRuns
    /\ \E listing \in Listings :
          LET loaded == load_processed_videos(processed_file)
              new == IF listing.exc = "none" /\ loaded.exc = "none"
                     THEN NewVideos(listing.videos, loaded.value) ELSE <<>>
          IN \E fates \in [1..Len(new) -> Fates] :
                LET r == ProcessAll(new, 1, fates, processed_file, summaries, <<>>)
                IN /\ processed_file' = r.file
                   /\ summaries' = r.summaries
                   /\ run' = [kind |-> "check", n |-> run.n + 1,
                              file_before |-> processed_file,
                              summaries_before |-> summaries,
                              listing |-> listing,
                              loaded |-> listing.exc = "none" /\ loaded.exc = "none",
                              new |-> new, calls |-> r.calls, raised |-> FALSE]
    /\ UNCHANGED <<ctorVars, threads, decodeVars, waitVars, fileVars, clientVars, gwVars,
                   waiters, outcome>>

\* lines 412-438: the /summarize handler for a URL of video v: process_video without
\* a look at the processed file
Summarize ==
    /\ op = "backend" /\ run.n < MaxRuns
    /\ \E v \in VideoIds, fate \in Fates :
          LET r == process_video(v, fate, processed_file, summaries)
          IN /\ processed_file' = r.file_after
             /\ summaries' = r.summaries
             /\ run' = [kind |-> "summarize", n |-> run.n + 1,
                        file_before |-> processed_file,
                        summaries_before |-> summaries,
                        listing |-> [exc |-> "none", videos |-> <<v>>],
                        loaded |-> FALSE,
                        new |-> <<v>>, calls |-> <<r>>, raised |-> FALSE]
    /\ UNCHANGED <<ctorVars, threads, decodeVars, waitVars, fileVars, clientVars, gwVars,
                   waiters, outcome>>

NextApp == CheckNewVideos \/ Summarize

SpecApp == InitApp /\ [][NextApp]_vars

-----------------------------------------------------------------------------
(* Claims about the processed file, under SpecApp *)

\* the ids a processed file holds (none when it is absent or not decodable)
IdsIn(f) == IF f.t = "json" THEN f.processed ELSE {}

\* the videos process_video was called for in the latest run, in call order
VideosOfRun == [j \in 1..Len(run.calls) |-> run.calls[j].id]

\* C27: a video whose id is in the processed file when a check_new_videos run
\* starts is not processed in that run: no transcript fetch, no summary, no
\* summary file for it, and its id stays in the file; every video a run has
\* summarized successfully is in the file when the run ends.
C27_ProcessedNotRedone ==
    run.kind = "check" =>
        /\ \A j \in 1..Len(run.calls) : run.calls[j].id \notin IdsIn(run.file_before)
        /\ \A v \in IdsIn(run.file_before) :
              /\ summaries[v] = run.summaries_before[v]
              /\ v \in IdsIn(processed_file)
        /\ \A j \in 1..Len(run.calls) :
              run.calls[j].end = [kind |-> "return", value |-> "data"]
                  => run.calls[j].id \in IdsIn(processed_file)

\* C27 witness: the second run lists v1, summarized and recorded by the first
\* run, and v2, which is new: only v2 is processed
C27_Witness ==
    /\ run.kind = "check" /\ run.n = 2
    /\ run.listing = [exc |-> "none", videos |-> <<"v1", "v2">>]
    /\ "v1" \in IdsIn(run.file_before)
    /\ run.summaries_before["v1"] = 1
    /\ VideosOfRun = <<"v2">>
    /\ summaries["v1"] = 1 /\ summaries["v2"] = 1

\* the calls process_video made in call c, by name
CallNames(c) == [k \in 1..Len(c.calls) |-> c.calls[k].call]

\* in call c the transcript fetch, the summary generation or the summary save failed
WorkFailed(c) ==
    \E k \in 1..Len(c.calls) :
        /\ c.calls[k].call \in {"get_transcript", "generate_summary", "save_summary"}
        /\ ~c.calls[k].ok

\* C28: process_video updates the processed file only after the transcript
\* fetch, the summary generation and the summary save have succeeded; when one
\* of them fails it returns None and leaves the file as it was, so the video
\* is still not recorded.
C28_MarkOnlyAfterSuccess ==
    run.kind # "none" =>
        \A j \in 1..Len(run.calls) :
            LET c == run.calls[j]
            IN /\ \A k \in 1..Len(c.calls) :
                     c.calls[k].call = "save_processed_video" =>
                         /\ k = 4
                         /\ SubSeq(CallNames(c), 1, 3)
                               = <<"get_transcript", "generate_summary", "save_summary">>
                         /\ \A i \in 1..3 : c.calls[i].ok
               /\ WorkFailed(c) =>
                     /\ c.end = [kind |-> "return", value |-> "None"]
                     /\ c.file_after = c.file_before
                     /\ "save_processed_video" \notin {CallNames(c)[k] : k \in 1..Len(c.calls)}
               /\ c.file_after # c.file_before =>
                     /\ ~WorkFailed(c)
                     /\ c.end = [kind |-> "return", value |-> "data"]
                     /\ c.file_after = FileOfIds(IdsIn(c.file_before) \cup {c.id})

\* C28 witness: the summary of v1 could not be generated in the first run, v1
\* was not recorded, and the second run processes v1 again
C28_Witness ==
    /\ run.kind = "check" /\ run.n = 2
    /\ run.summaries_before["v1"] = 0
    /\ "v1" \notin IdsIn(run.file_before)
    /\ run.file_before.t = "json"
    /\ Len(run.calls) = 1 /\ run.calls[1].id = "v1"
    /\ CallNames(run.calls[1]) = <<"get_transcript", "generate_summary">>
    /\ WorkFailed(run.calls[1])
    /\ "v1" \notin IdsIn(processed_file)

\* C29: check_new_videos never raises; a video that fails does not keep the
\* other new videos of the run from being processed; when the playlist cannot
\* be listed or the processed file cannot be read, no video is processed.
C29_FailuresIsolated ==
    run.kind = "check" =>
        /\ ~run.raised
        /\ VideosOfRun = run.new
        /\ \A j \in 1..Len(run.calls) : run.calls[j].end.kind = "return"
        /\ (run.listing.exc # "none" \/ run.file_before.t = "invalid") =>
              /\ run.calls = <<>>
              /\ processed_file = run.file_before
              /\ summaries = run.summaries_before
        /\ (run.listing.exc = "none" /\ run.file_before.t # "invalid") =>
              run.new = SelectSeq(run.listing.videos,
                                  LAMBDA v : v \notin IdsIn(run.file_before))

\* C29 witness: of two new videos the first failed at its transcript and the
\* second was summarized and recorded
C29_Witness ==
    /\ run.kind = "check"
    /\ run.new = <<"v1", "v2">>
    /\ Len(run.calls) = 2
    /\ run.calls[1].end.value = "None" /\ ~run.calls[1].calls[1].ok
    /\ run.calls[2].end.value = "data"
    /\ IdsIn(processed_file) = IdsIn(run.file_before) \cup {"v2"}

-----------------------------------------------------------------------------
(* backend/app.py: process_video in the scheduler thread (run_scheduler, started
   at lines 479-481) and in a request handler (/check or /summarize) at the same
   time, for different videos; the threads interleave between their file
   operations *)

ThreadIds == {"scheduler", "handler"}

\* the call after call c in the try block of process_video, "done" after the last
StepAfter(c) ==
    LET i == CHOOSE k \in 1..Len(ProcessSteps) : ProcessSteps[k] = c
    IN IF i < Len(ProcessSteps) THEN ProcessSteps[i + 1] ELSE "done"

InitAppConc ==
    /\ op = "backend threads"
    /\ processed_file \in {FileAbsent, FileOfIds({}), FileOfIds({"v3"})}
    /\ summaries = [v \in VideoIds |-> 0]
    /\ run = [kind |-> "concurrent", n |-> 0, file_before |-> processed_file]
    /\ \E via \in {"/check", "/summarize"} :
          threads = [t \in ThreadIds |->
                        [pc |-> ProcessSteps[1],
                         video |-> IF t = "scheduler" THEN "v1" ELSE "v2",
                         via |-> IF t = "scheduler" THEN "run_scheduler" ELSE via,
                         processed |-> {}]]
    /\ prompt = 0 /\ task_id_arg = "" /\ requests = <<>> /\ outcome = NoOutcome
    /\ DecodeIdle /\ WaitIdle /\ FileIdle /\ GWIdle /\ ConcIdle /\ CtorIdle

\* lines 242-250: get_transcript, generate_summary or save_summary returns or raises
ThreadWork(t) ==
    /\ threads[t].pc \in {"get_transcript", "generate_summary", "save_summary"}
    /\ \E ok \in BOOLEAN :
          /\ threads' = [threads EXCEPT ![t].pc = IF ok THEN StepAfter(@) ELSE "failed"]
          /\ summaries' = IF ok /\ threads[t].pc = "save_summary"
                          THEN [summaries EXCEPT ![threads[t].video] = @ + 1]
                          ELSE summaries
    /\ UNCHANGED <<ctorVars, processed_file, run, decodeVars, waitVars, fileVars,
                   clientVars, gwVars, waiters, outcome>>

\* lines 56-57: processed = load_processed_videos(); processed.add(video_id)
ThreadLoad(t) ==
    /\ threads[t].pc = "save_processed_video"
    /\ LET r == load_processed_videos(processed_file)
       IN threads' = IF r.exc = "none"
                     THEN [threads EXCEPT ![t].pc = "open",
                                          ![t].processed = r.value \cup {threads[t].video}]
                     ELSE [threads EXCEPT ![t].pc = "failed"]
    /\ UNCHANGED <<ctorVars, processed_file, summaries, run, decodeVars, waitVars,
                   fileVars, clientVars, gwVars, waiters, outcome>>

\* line 58: open(PROCESSED_FILE, "w") empties the file
ThreadOpen(t) ==
    /\ threads[t].pc = "open"
    /\ processed_file' = FileInvalid
    /\ threads' = [threads EXCEPT ![t].pc = "dump"]
    /\ UNCHANGED <<ctorVars, summaries, run, decodeVars, waitVars, fileVars, clientVars,
                   gwVars, waiters, outcome>>

\* line 59 and the end of the with block: the loaded ids and the new one are written
ThreadDump(t) ==
    /\ threads[t].pc = "dump"
    /\ processed_file' = FileOfIds(threads[t].processed)
    /\ threads' = [threads EXCEPT ![t].pc = StepAfter("save_processed_video")]
    /\ UNCHANGED <<ctorVars, summaries, run, decodeVars, waitVars, fileVars, clientVars,
                   gwVars, waiters, outcome>>

NextAppConc ==
    \/ \E t \in ThreadIds : ThreadWork(t)
    \/ \E t \in ThreadIds : ThreadLoad(t)
    \/ \E t \in ThreadIds : ThreadOpen(t)
    \/ \E t \in ThreadIds : ThreadDump(t)

SpecAppConc == InitAppConc /\ [][NextAppConc]_vars

-----------------------------------------------------------------------------
(* Claim about concurrent updates of the processed file, under SpecAppConc *)

\* C30: when process_video succeeds in the scheduler thread and in a request
\* handler for two different videos, both ids are in the processed file
\* afterwards and no id that was in the file before is lost.
C30_BothRecorded ==
    (\A t \in ThreadIds : threads[t].pc = "done") =>
        /\ {threads[t].video : t \in ThreadIds} \subseteq IdsIn(processed_file)
        /\ IdsIn(run.file_before) \subseteq IdsIn(processed_file)

====
